---- MODULE Spec2Model ----
(***************************************************************************)
(* GTO poker trainer: the usePokerGame hook (hand state, decision log,     *)
(* completion flag), the decision analysis it records, and the GTO helper  *)
(* functions of types/gto.ts.                                              *)
(*                                                                         *)
(* Numbers.  The source computes with JavaScript numbers; the model uses   *)
(* fixed point so that every value of the hand is exact:                   *)
(*   pot, stacks      in units of 1/BB big blinds (BB = 10^5)              *)
(*   amounts / sizes  in hundredths (0.33 is 33, 1.0 is 100)               *)
(*   ev               in tenths of a big blind (12.1 is 121)               *)
(*   frequencies      in hundredths (0.60 is 60)                           *)
(* An optional value (amount?: number) is a sequence: <<>> is undefined,   *)
(* <<n>> is the number n.                                                  *)
(***************************************************************************)
EXTENDS Integers, Sequences, FiniteSets, TLC

VARIABLES gameState, decisions, isHandComplete, lastCall

vars == <<gameState, decisions, isHandComplete, lastCall>>

hookState == <<gameState, decisions, isHandComplete>>

BB == 10 ^ 5

SizeUnit == 10 * 10

\* type ActionType = 'fold' | 'check' | 'call' | 'bet' | 'raise'
ActionType == {"fold", "check", "call", "bet", "raise"}

\* amount?: number -- the values a caller may pass: undefined, a negative
\* number, zero, and the smallest and largest size of the action buttons
Undefined == <<>>

Amounts == {Undefined, <<-150>>, <<0>>, <<33>>, <<100>>}

\* JavaScript truthiness of an optional number: undefined and 0 are falsy
Truthy(amount) == amount # Undefined /\ amount[1] # 0

\* parseCard: "Ah" -> {rank: 'A', suit: 'h'}; a CardString is <<rank, suit>>
parseCard(cardStr) == [rank |-> cardStr[1], suit |-> cardStr[2]]

cardToString(card) == <<card.rank, card.suit>>

createInitialGameState ==
    [street |-> "flop",
     pot |-> (75 * BB) \div 10,
     board |-> <<parseCard(<<"A", "h">>), parseCard(<<"K", "d">>),
                 parseCard(<<"7", "s">>)>>,
     players |-> <<[position |-> "CO", stack |-> 100 * BB, cards |-> <<>>,
                    isHero |-> FALSE],
                   [position |-> "BTN", stack |-> (975 * BB) \div 10,
                    cards |-> <<parseCard(<<"A", "s">>), parseCard(<<"Q", "s">>)>>,
                    isHero |-> TRUE]>>,
     actionHistory |-> <<>>,
     currentPlayer |-> "BTN"]

streetOrder == <<"preflop", "flop", "turn", "river">>

indexOf(seq, x) ==
    IF \E i \in 1..Len(seq) : seq[i] = x
    THEN CHOOSE i \in 1..Len(seq) : seq[i] = x /\ \A j \in 1..(i - 1) : seq[j] # x
    ELSE 0

\* getNextStreet with the index advanced by two: a street is skipped
getNextStreet_skipsStreet(current) ==
    LET currentIndex == indexOf(streetOrder, current)
    IN IF currentIndex + 1 < Len(streetOrder)
       THEN streetOrder[currentIndex + 2]
       ELSE current

\* getNextStreet (1-based here: currentIndex < length - 1 is index < Len)
getNextStreet(current) ==
    LET currentIndex == indexOf(streetOrder, current)
    IN IF currentIndex < Len(streetOrder)
       THEN streetOrder[currentIndex + 1]
       ELSE current

\* potAfter with the call paid out of the pot instead of into it
potAfter_callTakesFromPot(state, action, amount) ==
    IF action \in {"bet", "raise"}
    THEN state.pot + (IF Truthy(amount) THEN (amount[1] * state.pot) \div SizeUnit ELSE 0)
    ELSE IF action = "call" /\ Truthy(amount)
         THEN state.pot - amount[1] * (BB \div SizeUnit)
         ELSE state.pot

\* pot after the action: bet/raise add amount * pot (0 when amount is falsy),
\* call adds the amount itself when truthy
potAfter(state, action, amount) ==
    IF action \in {"bet", "raise"}
    THEN state.pot + (IF Truthy(amount) THEN (amount[1] * state.pot) \div SizeUnit ELSE 0)
    ELSE IF action = "call" /\ Truthy(amount)
         THEN state.pot + amount[1] * (BB \div SizeUnit)
         ELSE state.pot

\* processAction without the fold test: a fold advances the street too
processAction_foldAdvances(state, action, amount) ==
    LET history == Append(state.actionHistory,
                          [type |-> action, amount |-> amount, street |-> state.street])
        pot == potAfter(state, action, amount)
        street == getNextStreet(state.street)
        board == IF street = "turn"
                 THEN Append(state.board, parseCard(<<"3", "c">>))
                 ELSE IF street = "river"
                      THEN Append(state.board, parseCard(<<"9", "h">>))
                      ELSE state.board
    IN [state EXCEPT !.actionHistory = history, !.pot = pot,
                     !.street = street, !.board = board]

\* processAction dealing the river card on the turn as well
processAction_sameCardTwice(state, action, amount) ==
    LET history == Append(state.actionHistory,
                          [type |-> action, amount |-> amount, street |-> state.street])
        pot == potAfter(state, action, amount)
        street == IF action # "fold" THEN getNextStreet(state.street) ELSE state.street
        board == IF action # "fold" /\ street \in {"turn", "river"}
                 THEN Append(state.board, parseCard(<<"9", "h">>))
                 ELSE state.board
    IN [state EXCEPT !.actionHistory = history, !.pot = pot,
                     !.street = street, !.board = board]

\* processAction putting the new card in front of the board
processAction_prependsCard(state, action, amount) ==
    LET history == Append(state.actionHistory,
                          [type |-> action, amount |-> amount, street |-> state.street])
        pot == potAfter(state, action, amount)
        street == IF action # "fold" THEN getNextStreet(state.street) ELSE state.street
        board == IF action # "fold" /\ street = "turn"
                 THEN <<parseCard(<<"3", "c">>)>> \o state.board
                 ELSE IF action # "fold" /\ street = "river"
                      THEN <<parseCard(<<"9", "h">>)>> \o state.board
                      ELSE state.board
    IN [state EXCEPT !.actionHistory = history, !.pot = pot,
                     !.street = street, !.board = board]

\* processAction recording the street the action leads to
processAction_recordsNextStreet(state, action, amount) ==
    LET street == IF action # "fold" THEN getNextStreet(state.street) ELSE state.street
        history == Append(state.actionHistory,
                          [type |-> action, amount |-> amount, street |-> street])
        pot == potAfter(state, action, amount)
        board == IF action # "fold" /\ street = "turn"
                 THEN Append(state.board, parseCard(<<"3", "c">>))
                 ELSE IF action # "fold" /\ street = "river"
                      THEN Append(state.board, parseCard(<<"9", "h">>))
                      ELSE state.board
    IN [state EXCEPT !.actionHistory = history, !.pot = pot,
                     !.street = street, !.board = board]

processAction(state, action, amount) ==
    LET history == Append(state.actionHistory,
                          [type |-> action, amount |-> amount, street |-> state.street])
        pot == potAfter(state, action, amount)
        street == IF action # "fold" THEN getNextStreet(state.street) ELSE state.street
        board == IF action # "fold" /\ street = "turn"
                 THEN Append(state.board, parseCard(<<"3", "c">>))
                 ELSE IF action # "fold" /\ street = "river"
                      THEN Append(state.board, parseCard(<<"9", "h">>))
                      ELSE state.board
    IN [state EXCEPT !.actionHistory = history, !.pot = pot,
                     !.street = street, !.board = board]

\* processAction on the objects it works with.  A GameState object holds its
\* arrays by reference, so the heap maps the names of the objects to their
\* contents: state is the argument, with its arrays board0, history0 and
\* players0; newState is the shallow copy; history1 and board1 are the arrays
\* the spread expressions build (<<>> until then).
heapOf(state) ==
    [state |-> [state EXCEPT !.board = "board0", !.actionHistory = "history0",
                             !.players = "players0"],
     board0 |-> state.board,
     history0 |-> state.actionHistory,
     players0 |-> state.players,
     newState |-> <<>>,
     history1 |-> <<>>,
     board1 |-> <<>>]

\* the GameState value an object of the heap stands for
valueOf(heap, object) ==
    [heap[object] EXCEPT !.board = heap[heap[object].board],
                         !.actionHistory = heap[heap[object].actionHistory],
                         !.players = heap[heap[object].players]]

\* processAction adding the action to the history array in place
processActionOnHeap_pushesInPlace(state, action, amount) ==
    LET h0 == heapOf(state)
        h1 == [h0 EXCEPT !.newState = h0.state]
        h2 == [h1 EXCEPT ![h1.newState.actionHistory] =
                             Append(h1[h1.newState.actionHistory],
                                    [type |-> action, amount |-> amount,
                                     street |-> h1.state.street])]
        h3 == [h2 EXCEPT !.newState.pot =
                             h2.newState.pot
                               + (potAfter(h2.state, action, amount) - h2.state.pot)]
        nextStreet == getNextStreet(h3.state.street)
        h4 == IF action = "fold"
              THEN h3
              ELSE [h3 EXCEPT !.newState.street = nextStreet]
        h5 == IF action # "fold" /\ h4.newState.street = "turn"
              THEN [h4 EXCEPT !.board1 = Append(h4[h4.state.board], parseCard(<<"3", "c">>)),
                              !.newState.board = "board1"]
              ELSE IF action # "fold" /\ h4.newState.street = "river"
                   THEN [h4 EXCEPT !.board1 = Append(h4[h4.state.board], parseCard(<<"9", "h">>)),
                                   !.newState.board = "board1"]
                   ELSE h4
    IN h5

\* the heap when processAction returns: line by line, the copy { ...state },
\* the new history array, the pot, the street and the new board array
processActionOnHeap(state, action, amount) ==
    LET h0 == heapOf(state)
        h1 == [h0 EXCEPT !.newState = h0.state]
        h2 == [h1 EXCEPT !.history1 =
                             Append(h1[h1.state.actionHistory],
                                    [type |-> action, amount |-> amount,
                                     street |-> h1.state.street]),
                         !.newState.actionHistory = "history1"]
        h3 == [h2 EXCEPT !.newState.pot =
                             h2.newState.pot
                               + (potAfter(h2.state, action, amount) - h2.state.pot)]
        nextStreet == getNextStreet(h3.state.street)
        h4 == IF action = "fold"
              THEN h3
              ELSE [h3 EXCEPT !.newState.street = nextStreet]
        h5 == IF action # "fold" /\ h4.newState.street = "turn"
              THEN [h4 EXCEPT !.board1 = Append(h4[h4.state.board], parseCard(<<"3", "c">>)),
                              !.newState.board = "board1"]
              ELSE IF action # "fold" /\ h4.newState.street = "river"
                   THEN [h4 EXCEPT !.board1 = Append(h4[h4.state.board], parseCard(<<"9", "h">>)),
                                   !.newState.board = "board1"]
                   ELSE h4
    IN h5

\* the placeholder table with check as a pure strategy
gtoSolution_checkPure ==
    [check |-> [freq |-> 100, ev |-> 113],
     bet |-> [freq |-> 40, ev |-> 121],
     fold |-> [freq |-> 0, ev |-> -25],
     call |-> [freq |-> 35, ev |-> 105],
     raise |-> [freq |-> 20, ev |-> 110]]

\* the placeholder table of analyzeDecision
gtoSolution ==
    [check |-> [freq |-> 60, ev |-> 113],
     bet |-> [freq |-> 40, ev |-> 121],
     fold |-> [freq |-> 0, ev |-> -25],
     call |-> [freq |-> 35, ev |-> 105],
     raise |-> [freq |-> 20, ev |-> 110]]

\* analyzeDecision with a blunder threshold of 1.5bb
analyzeDecision_thresholdOneAndHalf(state, action, amount) ==
    LET actionData == IF action \in DOMAIN gtoSolution
                      THEN gtoSolution[action]
                      ELSE [freq |-> 0, ev |-> 0]
        bestAction == "bet"
        bestActionData == gtoSolution[bestAction]
    IN [gtoFrequency |-> actionData.freq,
        gtoEV |-> actionData.ev,
        bestAction |-> bestAction,
        bestActionFreq |-> bestActionData.freq,
        isBlunder |-> bestActionData.ev - actionData.ev > 15]

analyzeDecision(state, action, amount) ==
    LET actionData == IF action \in DOMAIN gtoSolution
                      THEN gtoSolution[action]
                      ELSE [freq |-> 0, ev |-> 0]
        bestAction == "bet"
        bestActionData == gtoSolution[bestAction]
    IN [gtoFrequency |-> actionData.freq,
        gtoEV |-> actionData.ev,
        bestAction |-> bestAction,
        bestActionFreq |-> bestActionData.freq,
        isBlunder |-> bestActionData.ev - actionData.ev > 20]

newDecision(state, action, amount) ==
    LET gtoAnalysis == analyzeDecision(state, action, amount)
    IN [street |-> state.street,
        action |-> action,
        amount |-> amount,
        gtoFrequency |-> gtoAnalysis.gtoFrequency,
        gtoEV |-> gtoAnalysis.gtoEV,
        bestAction |-> gtoAnalysis.bestAction,
        bestActionFreq |-> gtoAnalysis.bestActionFreq,
        isBlunder |-> gtoAnalysis.isBlunder]

\* the App facing a bet
canCheck_facingBet == FALSE

\* App.tsx: the betting state handed to the action buttons
canCheck == TRUE

canCall == FALSE

callAmount == Undefined

\* ActionButtons: the bet sizes offered, as fractions of the pot
betSizes == <<33, 50, 75, 100>>

\* ActionButtons: the (action, amount) pairs its buttons pass to onAction:
\* Fold when the player cannot check, Check or else Call, and one bet (or
\* raise, when the player cannot check) per size
offeredActions ==
    (IF ~canCheck THEN {<<"fold", Undefined>>} ELSE {})
      \cup (IF canCheck THEN {<<"check", Undefined>>}
            ELSE IF canCall THEN {<<"call", callAmount>>} ELSE {})
      \cup {<<IF canCheck THEN "bet" ELSE "raise", <<betSizes[i]>>>> : i \in 1..Len(betSizes)}

\* the hand reported over only when the action was taken on the river
handOver_fromRiver(state, action, amount) ==
    action = "fold" \/ state.street = "river"

\* whether makeAction reports the hand over after this action
handOver(state, action, amount) ==
    action = "fold" \/ processAction(state, action, amount).street = "river"

\* ---------------------------------------------------------------- gto.ts

\* GTOAction values the helper functions are applied to: two bets that tie
\* on ev with different frequencies, a bet exactly 2.0 below them, a fold
GTOActionPool ==
    {[action |-> "bet", size |-> <<33>>, frequency |-> 35, ev |-> 121],
     [action |-> "bet", size |-> <<40>>, frequency |-> 45, ev |-> 121],
     [action |-> "bet", size |-> <<66>>, frequency |-> 10, ev |-> 101],
     [action |-> "fold", size |-> Undefined, frequency |-> 0, ev |-> -25]}

MaxActions == 2

\* the solutions the helpers are applied to: every non-empty list of at most
\* MaxActions pool actions (only the actions field is read by the helpers)
Solutions ==
    {[actions |-> acts] :
        acts \in UNION {[1..n -> GTOActionPool] : n \in 1..MaxActions}}

\* solution.actions.reduce((best, current) => current.ev > best.ev ? current : best)
RECURSIVE reduceBest(_, _, _)
reduceBest(actions, i, best) ==
    IF i > Len(actions)
    THEN best
    ELSE reduceBest(actions, i + 1,
                    IF actions[i].ev > best.ev THEN actions[i] ELSE best)

getBestAction(solution) == reduceBest(solution.actions, 2, solution.actions[1])

\* isBlunder with >= for >: a gap of exactly 2.0 counts as a blunder
isBlunder_atLeastTwo(solution, action) ==
    LET bestAction == getBestAction(solution)
    IN bestAction.ev - action.ev >= 20

isBlunder(solution, action) ==
    LET bestAction == getBestAction(solution)
    IN bestAction.ev - action.ev > 20

\* -------------------------------------------------------- gtoSolutions.ts

\* The six stored solutions (the actionHistory and description texts, which
\* no function reads, are left out).

\* Scenario 1: BTN vs CO, A-high flop with top pair
scenario1 ==
    [id |-> "flop-btn-vs-co-ahigh-toppair",
     street |-> "flop", position |-> "BTN", villainPosition |-> "CO",
     board |-> <<<<"A", "h">>, <<"K", "d">>, <<"7", "s">>>>,
     pot |-> (75 * BB) \div 10, stackDepth |-> (1000 * BB) \div 10,
     handClass |-> <<"top-pair">>,
     actions |-> <<[action |-> "check", size |-> Undefined, frequency |-> 55, ev |-> 113],
     [action |-> "bet", size |-> <<33>>, frequency |-> 35, ev |-> 121],
     [action |-> "bet", size |-> <<66>>, frequency |-> 10, ev |-> 115]>>]

\* Scenario 2: Turn after betting flop
scenario2 ==
    [id |-> "turn-btn-vs-co-ahigh-toppair-afterbet",
     street |-> "turn", position |-> "BTN", villainPosition |-> "CO",
     board |-> <<<<"A", "h">>, <<"K", "d">>, <<"7", "s">>, <<"3", "c">>>>,
     pot |-> (100 * BB) \div 10, stackDepth |-> (950 * BB) \div 10,
     handClass |-> <<"top-pair">>,
     actions |-> <<[action |-> "check", size |-> Undefined, frequency |-> 70, ev |-> 152],
     [action |-> "bet", size |-> <<50>>, frequency |-> 20, ev |-> 145],
     [action |-> "bet", size |-> <<75>>, frequency |-> 10, ev |-> 131]>>]

\* Scenario 3: River decision
scenario3 ==
    [id |-> "river-btn-vs-co-ahigh-toppair",
     street |-> "river", position |-> "BTN", villainPosition |-> "CO",
     board |-> <<<<"A", "h">>, <<"K", "d">>, <<"7", "s">>, <<"3", "c">>, <<"9", "h">>>>,
     pot |-> (100 * BB) \div 10, stackDepth |-> (950 * BB) \div 10,
     handClass |-> <<"top-pair">>,
     actions |-> <<[action |-> "check", size |-> Undefined, frequency |-> 80, ev |-> 155],
     [action |-> "bet", size |-> <<33>>, frequency |-> 15, ev |-> 148],
     [action |-> "bet", size |-> <<50>>, frequency |-> 5, ev |-> 135]>>]

\* Scenario 4: Facing a bet on flop with top pair
scenario4 ==
    [id |-> "flop-btn-vs-co-ahigh-toppair-facingbet",
     street |-> "flop", position |-> "BTN", villainPosition |-> "CO",
     board |-> <<<<"A", "h">>, <<"K", "d">>, <<"7", "s">>>>,
     pot |-> (100 * BB) \div 10, stackDepth |-> (975 * BB) \div 10,
     handClass |-> <<"top-pair">>,
     actions |-> <<[action |-> "fold", size |-> Undefined, frequency |-> 0, ev |-> -25],
     [action |-> "call", size |-> Undefined, frequency |-> 75, ev |-> 105],
     [action |-> "raise", size |-> <<66>>, frequency |-> 25, ev |-> 98]>>]

\* Scenario 5: Dry flop with weak hand
scenario5 ==
    [id |-> "flop-btn-vs-co-drytexture-weak",
     street |-> "flop", position |-> "BTN", villainPosition |-> "CO",
     board |-> <<<<"K", "s">>, <<"7", "h">>, <<"2", "c">>>>,
     pot |-> (75 * BB) \div 10, stackDepth |-> (1000 * BB) \div 10,
     handClass |-> <<"air">>,
     actions |-> <<[action |-> "check", size |-> Undefined, frequency |-> 60, ev |-> 0],
     [action |-> "bet", size |-> <<33>>, frequency |-> 30, ev |-> -5],
     [action |-> "bet", size |-> <<75>>, frequency |-> 10, ev |-> -12]>>]

\* Scenario 6 with the call frequency 0.75 for 0.85
scenario6_frequenciesShort ==
    [id |-> "flop-btn-vs-co-wetdraw",
     street |-> "flop", position |-> "BTN", villainPosition |-> "CO",
     board |-> <<<<"Q", "h">>, <<"J", "h">>, <<"7", "h">>>>,
     pot |-> (75 * BB) \div 10, stackDepth |-> (1000 * BB) \div 10,
     handClass |-> <<"draw">>,
     actions |-> <<[action |-> "fold", size |-> Undefined, frequency |-> 0, ev |-> -25],
     [action |-> "call", size |-> Undefined, frequency |-> 75, ev |-> 85],
     [action |-> "raise", size |-> <<100>>, frequency |-> 15, ev |-> 78]>>]

\* Scenario 6: Wet flop with flush draw
scenario6 ==
    [id |-> "flop-btn-vs-co-wetdraw",
     street |-> "flop", position |-> "BTN", villainPosition |-> "CO",
     board |-> <<<<"Q", "h">>, <<"J", "h">>, <<"7", "h">>>>,
     pot |-> (75 * BB) \div 10, stackDepth |-> (1000 * BB) \div 10,
     handClass |-> <<"draw">>,
     actions |-> <<[action |-> "fold", size |-> Undefined, frequency |-> 0, ev |-> -25],
     [action |-> "call", size |-> Undefined, frequency |-> 85, ev |-> 85],
     [action |-> "raise", size |-> <<100>>, frequency |-> 15, ev |-> 78]>>]

gtoSolutions == <<scenario1, scenario2, scenario3, scenario4, scenario5, scenario6>>

\* Array.prototype.find: the first element of seq among those at the passing
\* indices (the indices whose element satisfies the callback), as an
\* optional value (<<>> when there is none)
find(seq, passing) ==
    IF passing = {}
    THEN Undefined
    ELSE <<seq[CHOOSE i \in passing : \A j \in passing : i <= j]>>

\* findAction: the first action of the type whose size, when both sizes are
\* truthy, differs from the requested size by less than 0.1
findAction(solution, actionType, size) ==
    LET matches(a) ==
            IF a.action # actionType THEN FALSE
            ELSE IF Truthy(size) /\ Truthy(a.size)
                 THEN (IF a.size[1] >= size[1] THEN a.size[1] - size[1]
                       ELSE size[1] - a.size[1]) < 10
                 ELSE TRUE
    IN find(solution.actions, {i \in 1..Len(solution.actions) : matches(solution.actions[i])})

\* findGTOSolution comparing the board card by card
findGTOSolution_exactBoard(street, board, handClass) ==
    LET matches(s) ==
            /\ s.street = street
            /\ s.board = board
            /\ (handClass = Undefined \/ handClass = <<"">> \/ s.handClass = handClass)
    IN find(gtoSolutions, {i \in 1..Len(gtoSolutions) : matches(gtoSolutions[i])})

\* findGTOSolution: the first stored solution of the street with a board of
\* the same length and, when a hand class is given, that hand class; the
\* result is an optional value, <<>> standing for null
findGTOSolution(street, board, handClass) ==
    LET matches(s) ==
            /\ s.street = street
            /\ Len(s.board) = Len(board)
            /\ (handClass = Undefined \/ handClass = <<"">> \/ s.handClass = handClass)
    IN find(gtoSolutions, {i \in 1..Len(gtoSolutions) : matches(gtoSolutions[i])})

\* ------------------------------------------------- HandReview (Card.tsx)

\* the decisions calculateScore is applied to; it reads isBlunder and
\* gtoFrequency only, so the other fields of a Decision are left out
DecisionPool ==
    {[isBlunder |-> TRUE, gtoFrequency |-> 0],
     [isBlunder |-> FALSE, gtoFrequency |-> 0],
     [isBlunder |-> FALSE, gtoFrequency |-> 55],
     [isBlunder |-> FALSE, gtoFrequency |-> 90],
     [isBlunder |-> FALSE, gtoFrequency |-> 100]}

MaxDecisions == 2

DecisionLists == UNION {[1..n -> DecisionPool] : n \in 0..MaxDecisions}

\* the loss of one decision in units of 1/200 big blind:
\* d.isBlunder ? 3 : (1 - d.gtoFrequency) * 1.5
evLoss(d) == IF d.isBlunder THEN 600 ELSE 3 * (100 - d.gtoFrequency)

RECURSIVE totalEVLoss(_)
totalEVLoss(ds) ==
    IF Len(ds) = 0 THEN 0 ELSE evLoss(ds[1]) + totalEVLoss(Tail(ds))

\* Math.round of the fraction num / den (den > 0): the nearest integer, a
\* half rounded up
MathRound(num, den) == (2 * num + den) \div (2 * den)

\* calculateScore with Math.floor in the place of Math.round
calculateScore_roundsDown(ds) ==
    IF Len(ds) = 0
    THEN 100
    ELSE LET den == 10 * Len(ds)
             raw == 100 * den - totalEVLoss(ds)
             score == IF raw > 0 THEN raw ELSE 0
         IN score \div den

\* calculateScore charging a blunder 2 instead of 3
calculateScore_blunderCostsTwo(ds) ==
    IF Len(ds) = 0
    THEN 100
    ELSE LET den == 10 * Len(ds)
             blunders == Cardinality({i \in 1..Len(ds) : ds[i].isBlunder})
             raw == 100 * den - (totalEVLoss(ds) - 200 * blunders)
             score == IF raw > 0 THEN raw ELSE 0
         IN MathRound(score, den)

\* calculateScore: 100 - (totalEVLoss / length) * 20 is the fraction
\* (100 * den - totalEVLoss) / den with den = 10 * length when the loss is
\* counted in 1/200; then Math.max(0, .) and Math.round
calculateScore(ds) ==
    IF Len(ds) = 0
    THEN 100
    ELSE LET den == 10 * Len(ds)
             raw == 100 * den - totalEVLoss(ds)
             score == IF raw > 0 THEN raw ELSE 0
         IN MathRound(score, den)

\* getScoreColor: green from 85, orange from 70, red below
getScoreColor(score) ==
    IF score >= 85 THEN "#4caf50"
    ELSE IF score >= 70 THEN "#ff9800"
    ELSE "#f44336"

\* getScoreEmoji: three, two or one stars from 90, 75 and 60, a broken heart
\* below (the emoji are written out in words)
getScoreEmoji(score) ==
    IF score >= 90 THEN "three stars"
    ELSE IF score >= 75 THEN "two stars"
    ELSE IF score >= 60 THEN "one star"
    ELSE "broken heart"

\* getScoreFeedback: the message for the score, by its first word
getScoreFeedback(score) ==
    IF score >= 90 THEN "Excellent!"
    ELSE IF score >= 75 THEN "Good work!"
    ELSE IF score >= 60 THEN "Decent effort."
    ELSE "Keep practicing!"

\* ------------------------------------------------------------ the machine

Init ==
    /\ gameState = createInitialGameState
    /\ decisions = <<>>
    /\ isHandComplete = FALSE
    /\ lastCall = [op |-> "none", args |-> <<>>, result |-> Undefined]

\* makeAction without the isHandComplete return
makeAction_noCompleteCheck(action, amount) ==
    /\ lastCall' = [op |-> "makeAction", args |-> <<action, amount>>,
                    result |-> Undefined]
    /\ decisions' = Append(decisions, newDecision(gameState, action, amount))
    /\ isHandComplete' = (handOver(gameState, action, amount) \/ isHandComplete)
    /\ gameState' = processAction(gameState, action, amount)

\* makeAction as run by the render that sees the current state
makeAction(action, amount) ==
    /\ lastCall' = [op |-> "makeAction", args |-> <<action, amount>>,
                    result |-> Undefined]
    /\ IF isHandComplete
       THEN UNCHANGED hookState
       ELSE /\ decisions' = Append(decisions, newDecision(gameState, action, amount))
            /\ isHandComplete' = (handOver(gameState, action, amount) \/ isHandComplete)
            /\ gameState' = processAction(gameState, action, amount)

\* startNewHand without setDecisions([])
startNewHand_keepsDecisions ==
    /\ lastCall' = [op |-> "startNewHand", args |-> <<>>, result |-> Undefined]
    /\ gameState' = createInitialGameState
    /\ isHandComplete' = FALSE
    /\ UNCHANGED decisions

startNewHand ==
    /\ lastCall' = [op |-> "startNewHand", args |-> <<>>, result |-> Undefined]
    /\ gameState' = createInitialGameState
    /\ decisions' = <<>>
    /\ isHandComplete' = FALSE

\* Two invocations of makeAction from one render, before the hook renders
\* again.  Both run the closure of that render, so both read the same
\* isHandComplete, decisions and gameState; each useState setter is given a
\* value, not an updater, so the value of the later invocation replaces the
\* one of the earlier.  setIsHandComplete(true) is called by whichever
\* invocation finds the hand over.
makeActionTwice(action1, amount1, action2, amount2) ==
    /\ lastCall' = [op |-> "makeActionTwice",
                    args |-> <<action1, amount1, action2, amount2>>,
                    result |-> Undefined]
    /\ IF isHandComplete
       THEN UNCHANGED hookState
       ELSE /\ decisions' = Append(decisions, newDecision(gameState, action2, amount2))
            /\ isHandComplete' = (\/ handOver(gameState, action1, amount1)
                                  \/ handOver(gameState, action2, amount2)
                                  \/ isHandComplete)
            /\ gameState' = processAction(gameState, action2, amount2)

\* The hook as createInitialGameState and the useState initialisers leave it.
freshHook == hookState = <<createInitialGameState, <<>>, FALSE>>

\* A call of the exported helper isBlunder(solution, action).  The helpers of
\* gto.ts read and write nothing of the hook, so a call gives the same
\* lastCall record from every hook state; the calls are explored from the
\* fresh hook only, which keeps the state space a sum and not a product.
callIsBlunder ==
    /\ freshHook
    /\ \E solution \in Solutions, action \in GTOActionPool :
          lastCall' = [op |-> "isBlunder", args |-> <<solution, action>>,
                       result |-> <<isBlunder(solution, action)>>]
    /\ UNCHANGED hookState

\* A call of the exported helper getBestAction(solution).
callGetBestAction ==
    /\ freshHook
    /\ \E solution \in Solutions :
          lastCall' = [op |-> "getBestAction", args |-> <<solution>>,
                       result |-> <<getBestAction(solution)>>]
    /\ UNCHANGED hookState

\* A call of calculateScore(decisions), as HandReview makes it.
callCalculateScore ==
    /\ freshHook
    /\ \E ds \in DecisionLists :
          lastCall' = [op |-> "calculateScore", args |-> <<ds>>,
                       result |-> <<calculateScore(ds)>>]
    /\ UNCHANGED hookState

\* the scores a hand review can show
Scores == 0..100

\* The header of HandReview for a score: its colour, emoji and feedback.
renderScore ==
    /\ freshHook
    /\ \E score \in Scores :
          lastCall' = [op |-> "renderScore", args |-> <<score>>,
                       result |-> <<[color |-> getScoreColor(score),
                                     emoji |-> getScoreEmoji(score),
                                     feedback |-> getScoreFeedback(score)]>>]
    /\ UNCHANGED hookState

\* a smaller set of amounts: none, and a third of the pot
BatchAmounts == {Undefined, <<33>>}

\* the states processAction is applied to: the initial one and those one
\* action after it
ProcessedStates ==
    {createInitialGameState}
      \cup {processAction(createInitialGameState, input[1], input[2]) :
              input \in ActionType \X BatchAmounts}

\* A call of processAction(state, action, amount); the result records the
\* returned state and the argument as it is after the call.
callProcessAction ==
    /\ freshHook
    /\ \E state \in ProcessedStates, action \in ActionType, amount \in BatchAmounts :
          LET heap == processActionOnHeap(state, action, amount)
          IN lastCall' = [op |-> "processAction",
                          args |-> <<state, action, amount>>,
                          result |-> <<[newState |-> valueOf(heap, "newState"),
                                        state |-> valueOf(heap, "state")]>>]
    /\ UNCHANGED hookState

\* the queries findGTOSolution is applied to
Streets == {"preflop", "flop", "turn", "river"}

Boards ==
    {<<>>,
     <<<<"A", "h">>, <<"K", "d">>, <<"7", "s">>>>,
     <<<<"Q", "h">>, <<"J", "h">>, <<"7", "h">>>>,
     <<<<"Q", "c">>, <<"J", "c">>, <<"7", "c">>>>,
     <<<<"K", "s">>, <<"7", "h">>, <<"2", "c">>>>,
     <<<<"2", "c">>, <<"3", "d">>, <<"4", "h">>>>,
     <<<<"A", "h">>, <<"K", "d">>, <<"7", "s">>, <<"3", "c">>>>,
     <<<<"A", "h">>, <<"K", "d">>, <<"7", "s">>, <<"3", "c">>, <<"9", "h">>>>}

HandClasses == {Undefined, <<"top-pair">>, <<"air">>, <<"draw">>, <<"nuts">>}

\* A call of the exported lookup findGTOSolution(street, board, handClass).
callFindGTOSolution ==
    /\ freshHook
    /\ \E street \in Streets, board \in Boards, handClass \in HandClasses :
          lastCall' = [op |-> "findGTOSolution",
                       args |-> <<street, board, handClass>>,
                       result |-> findGTOSolution(street, board, handClass)]
    /\ UNCHANGED hookState

\* requested sizes: none, 0, and three fractions of the pot that are not at
\* distance exactly 0.10 from any size of the solutions searched
Sizes == {Undefined, <<0>>, <<35>>, <<62>>, <<95>>}

\* the solutions findAction is applied to: the stored ones and the small ones
\* built from GTOActionPool
SearchedSolutions ==
    Solutions \cup {[actions |-> gtoSolutions[k].actions] : k \in 1..Len(gtoSolutions)}

\* A call of the exported helper findAction(solution, actionType, size).
callFindAction ==
    /\ freshHook
    /\ \E solution \in SearchedSolutions, actionType \in ActionType, size \in Sizes :
          lastCall' = [op |-> "findAction",
                       args |-> <<solution, actionType, size>>,
                       result |-> findAction(solution, actionType, size)]
    /\ UNCHANGED hookState

Next ==
    \/ \E action \in ActionType, amount \in Amounts : makeAction(action, amount)
    \/ startNewHand
    \/ callIsBlunder
    \/ callGetBestAction
    \/ callCalculateScore
    \/ callFindGTOSolution
    \/ callFindAction
    \/ renderScore
    \/ callProcessAction

Spec == Init /\ [][Next]_vars

\* App.handleAction: a button's action handed on to makeAction
handleAction(action, amount) == makeAction(action, amount)

\* The hook driven with the actions the App's buttons offer.
NextButtons ==
    \/ \E offered \in offeredActions : handleAction(offered[1], offered[2])
    \/ startNewHand

SpecButtons == Init /\ [][NextButtons]_vars

\* The hook with callers that may also invoke makeAction twice from one render.
NextBatched ==
    \/ \E action \in ActionType, amount \in BatchAmounts : makeAction(action, amount)
    \/ startNewHand
    \/ \E action1 \in ActionType, amount1 \in BatchAmounts,
          action2 \in ActionType, amount2 \in BatchAmounts :
          makeActionTwice(action1, amount1, action2, amount2)

SpecBatched == Init /\ [][NextBatched]_vars

\* ================================================================ claims

\* the step is a call makeAction(action, amount) for some amount
calledMakeAction == lastCall'.op = "makeAction"

calledAction == lastCall'.args[1]

calledAmount == lastCall'.args[2]

\* the call was made on a hand that was not complete, so it was applied
accepted == calledMakeAction /\ ~isHandComplete

\* the last entry of the action history is the call lastCall records
lastEntryIsCall ==
    /\ lastCall.op = "makeAction"
    /\ gameState.actionHistory # <<>>
    /\ LET e == gameState.actionHistory[Len(gameState.actionHistory)]
       IN e.type = lastCall.args[1] /\ e.amount = lastCall.args[2]

\* C1: a fold on a hand that is not complete makes the hand complete and
\* leaves pot, street and board exactly as they were.
C1_FoldCompletesHandKeepsPot ==
    [][(accepted /\ calledAction = "fold")
         => /\ isHandComplete'
            /\ gameState'.pot = gameState.pot
            /\ gameState'.street = gameState.street
            /\ gameState'.board = gameState.board]_vars

\* a fold applied on the turn, after a pot-sized bet on the flop
C1_Witness ==
    /\ lastEntryIsCall
    /\ lastCall.args[1] = "fold"
    /\ isHandComplete
    /\ gameState.street = "turn"
    /\ gameState.pot = 15 * BB
    /\ Len(gameState.board) = 4

\* C2: once the hand is complete every makeAction call, whatever the action
\* and amount, leaves game state, decision list and completion flag as they
\* are; a step that changes any of them is a startNewHand.
C2_CompleteHandIgnoresActions ==
    [][isHandComplete
         => /\ calledMakeAction => hookState' = hookState
            /\ hookState' # hookState => lastCall'.op = "startNewHand"]_vars

\* a bet made after the hand ended with a fold: the history still ends with
\* the fold and holds one entry
C2_Witness ==
    /\ isHandComplete
    /\ lastCall.op = "makeAction"
    /\ lastCall.args = <<"bet", <<100>>>>
    /\ Len(gameState.actionHistory) = 1
    /\ gameState.actionHistory[1].type = "fold"
    /\ Len(decisions) = 1
    /\ gameState.pot = createInitialGameState.pot

\* C3: an action whose type the betting state does not permit (check or bet
\* while facing a bet; call, raise or fold with no bet outstanding) is
\* rejected and leaves the game state, the decisions and the flag unchanged.
\* The betting state is the one App.tsx passes down: canCheck, canCall.
C3_InvalidActionRejected ==
    [][LET permitted == IF canCall THEN {"call", "raise", "fold"}
                        ELSE {"check", "bet"}
       IN (calledMakeAction /\ calledAction \notin permitted)
            => hookState' = hookState]_vars

\* C4: while every amount of the hand is positive or absent, no makeAction
\* call decreases the pot.
C4_PotNeverDecreases ==
    [][LET h == gameState'.actionHistory
           positiveOrAbsent(a) == a = Undefined \/ a[1] > 0
       IN (calledMakeAction
           /\ positiveOrAbsent(calledAmount)
           /\ \A i \in 1..Len(h) : positiveOrAbsent(h[i].amount))
            => gameState'.pot >= gameState.pot]_vars

\* a call of 1.0bb applied on the turn after a 33% bet on the flop
C4_Witness ==
    /\ lastEntryIsCall
    /\ lastCall.args = <<"call", <<100>>>>
    /\ Len(gameState.actionHistory) = 2
    /\ gameState.actionHistory[1].type = "bet"
    /\ gameState.actionHistory[1].amount = <<33>>
    /\ gameState.pot = (10975 * BB) \div 1000

\* C5: an accepted bet or raise of size s adds exactly s times the pot to
\* the pot and takes the same chips from the acting player's stack.
C5_BetMovesChipsFromStackToPot ==
    [][(accepted /\ calledAction \in {"bet", "raise"} /\ calledAmount # Undefined)
         => LET chips == (calledAmount[1] * gameState.pot) \div SizeUnit
                actor(g) == CHOOSE i \in 1..Len(g.players) :
                                g.players[i].position = g.currentPlayer
            IN /\ gameState'.pot = gameState.pot + chips
               /\ gameState'.players[actor(gameState)].stack
                    = gameState.players[actor(gameState)].stack - chips]_vars

\* C6: every accepted non-fold action moves the street exactly one step
\* along preflop, flop, turn, river; no makeAction call moves it backward
\* or past the next street.
C6_StreetAdvancesOneStep ==
    [][LET order == <<"preflop", "flop", "turn", "river">>
           idx(s) == CHOOSE i \in 1..4 : order[i] = s
           before == idx(gameState.street)
           after == idx(gameState'.street)
       IN calledMakeAction
            => /\ after \in {before, before + 1}
               /\ (accepted /\ calledAction # "fold") => after = before + 1]_vars

\* a check applied on the turn after a check on the flop
C6_Witness ==
    /\ lastEntryIsCall
    /\ lastCall.args[1] = "check"
    /\ gameState.street = "river"
    /\ Len(gameState.actionHistory) = 2
    /\ gameState.actionHistory[1].street = "flop"
    /\ gameState.actionHistory[2].street = "turn"

\* C7: in a hand the hero never folds, a decision is recorded on every
\* street from the starting street through the river, and the hand is
\* complete only after the river decision.
C7_DecisionOnEveryStreetThroughRiver ==
    (isHandComplete /\ \A i \in 1..Len(decisions) : decisions[i].action # "fold")
      => /\ [i \in 1..Len(decisions) |-> decisions[i].street]
              = <<"flop", "turn", "river">>
         /\ decisions[Len(decisions)].street = "river"

\* The board lengths of one hand follow the list lengths: the hand starts at
\* lengths[1], every accepted non-fold action moves the board to the next
\* length by appending cards, a fold or an ignored call leaves the board as
\* it is, and a hand that completes without a fold ends at the last length.
boardLengthsFollow(lengths) ==
    LET h == gameState.actionHistory
        nonFold(hist) == {i \in 1..Len(hist) : hist[i].type # "fold"}
        k == Cardinality(nonFold(h)) + 1
        b == gameState.board
        b2 == gameState'.board
    IN /\ lastCall'.op = "startNewHand" => Len(b2) = lengths[1]
       /\ (calledMakeAction /\ ~accepted) => b2 = b
       /\ accepted
            => /\ k <= Len(lengths)
               /\ Len(b) = lengths[k]
               /\ IF calledAction = "fold"
                  THEN b2 = b
                  ELSE /\ k + 1 <= Len(lengths)
                       /\ Len(b2) = lengths[k + 1]
                       /\ SubSeq(b2, 1, Len(b)) = b
       /\ (calledMakeAction /\ isHandComplete'
           /\ nonFold(gameState'.actionHistory) = DOMAIN gameState'.actionHistory)
            => Len(b2) = lengths[Len(lengths)]

C9_BoardMatchesStreetNoDuplicates ==
    LET hero == CHOOSE i \in 1..Len(gameState.players) : gameState.players[i].isHero
        cards == gameState.board \o gameState.players[hero].cards
    IN /\ Len(gameState.board)
            = CASE gameState.street = "preflop" -> 0
                [] gameState.street = "flop" -> 3
                [] gameState.street = "turn" -> 4
                [] gameState.street = "river" -> 5
       /\ \A i, j \in 1..Len(cards) : i # j => cards[i] # cards[j]

\* the river reached: five board cards beside the two hole cards
C9_Witness ==
    /\ gameState.street = "river"
    /\ Len(gameState.board) = 5
    /\ gameState.board[5] = parseCard(<<"9", "h">>)
    /\ lastEntryIsCall

\* C10: isBlunder is true exactly when the best ev minus the chosen action's
\* ev is strictly greater than 2.0, and never for the best action itself:
\* for the flag of every decision makeAction records (against the table the
\* decision was analysed with) and for every call isBlunder(solution, action).
C10_BlunderIffEvGapAboveTwo ==
    LET maxOf(evs) == CHOOSE m \in evs : \A e \in evs : e <= m
        tableBest == maxOf({gtoSolution[a].ev : a \in DOMAIN gtoSolution})
    IN /\ \A i \in 1..Len(decisions) :
            LET d == decisions[i]
            IN /\ gtoSolution[d.bestAction].ev = tableBest
               /\ d.isBlunder <=> (tableBest - gtoSolution[d.action].ev > 20)
               /\ d.action = d.bestAction => ~d.isBlunder
       /\ lastCall.op = "isBlunder"
            => LET actions == lastCall.args[1].actions
                   chosen == lastCall.args[2]
                   best == maxOf({actions[i].ev : i \in 1..Len(actions)})
               IN /\ lastCall.result[1] <=> (best - chosen.ev > 20)
                  /\ chosen.ev = best => ~lastCall.result[1]

\* the check of the claim's example (ev 11.3 against the best bet's 12.1)
\* recorded as no blunder, followed by a fold recorded as a blunder
C10_Witness ==
    /\ Len(decisions) = 2
    /\ decisions[1].action = "check"
    /\ decisions[1].gtoEV = 113
    /\ decisions[1].bestAction = "bet"
    /\ ~decisions[1].isBlunder
    /\ decisions[2].action = "fold"
    /\ decisions[2].isBlunder

\* C11: getBestAction returns an action of the solution with maximum ev and,
\* among the actions that share the maximum ev, one with the highest
\* frequency, whatever the order of the actions.
C11_BestActionTieBreaksOnFrequency ==
    lastCall.op = "getBestAction"
      => LET actions == lastCall.args[1].actions
             best == lastCall.result[1]
             all == {actions[i] : i \in 1..Len(actions)}
             top == {a \in all : \A b \in all : b.ev <= a.ev}
         IN /\ best \in top
            /\ \A a \in top : a.frequency <= best.frequency

\* C12: every decision makeAction records is the evaluation of the chosen
\* action against the stored solution of the street and board the action
\* was taken on: frequency and ev are those findAction gives there, best
\* action and its frequency those getBestAction gives there.
C12_DecisionMatchesStoredSolution ==
    [][accepted
         => LET boardStrings == [i \in 1..Len(gameState.board)
                                   |-> cardToString(gameState.board[i])]
                sameSpot(s) == s.street = gameState.street /\ s.board = boardStrings
                stored == find(gtoSolutions, {i \in 1..Len(gtoSolutions) : sameSpot(gtoSolutions[i])})
                d == decisions'[Len(decisions')]
            IN /\ stored # Undefined
               /\ LET chosen == findAction(stored[1], calledAction, calledAmount)
                      best == getBestAction(stored[1])
                  IN /\ chosen # Undefined
                        => /\ d.gtoFrequency = chosen[1].frequency
                           /\ d.gtoEV = chosen[1].ev
                     /\ d.bestAction = best.action
                     /\ d.bestActionFreq = best.frequency]_vars

\* The exact score of a decision list as a fraction num / den: 100 minus 20
\* times the mean loss, the loss of a decision being 3.0 if it is a blunder
\* and (1 - frequency) * 1.5 otherwise, clamped to [0, 100].  In hundredths
\* of a point the sum of the losses times 20 is 6000 per blunder and
\* 30 * (100 - frequency) per other decision; den is 100 * length.
exactScore(ds) ==
    LET n == Len(ds)
        loss(i) == IF ds[i].isBlunder THEN 6000 ELSE 30 * (100 - ds[i].gtoFrequency)
        sum[i \in 0..n] == IF i = 0 THEN 0 ELSE sum[i - 1] + loss(i)
        raw == 100 * 100 * n - sum[n]
        top == 100 * 100 * n
    IN [num |-> IF raw < 0 THEN 0 ELSE IF raw > top THEN top ELSE raw,
        den |-> 100 * n]

\* C13 as stated: calculateScore returns 100 for the empty list and otherwise
\* exactly the value 100 - 20 * (mean loss) clamped to [0, 100]; the result
\* is within 0..100.
C13_ScoreIsClampedMeanLoss ==
    lastCall.op = "calculateScore"
      => LET ds == lastCall.args[1]
             r == lastCall.result[1]
         IN /\ r \in 0..100
            /\ Len(ds) = 0 => r = 100
            /\ Len(ds) > 0 => r * exactScore(ds).den = exactScore(ds).num

\* C13 amended: calculateScore returns 100 for the empty list and otherwise
\* the value 100 - 20 * (mean loss) clamped to [0, 100] and rounded to the
\* nearest integer, a half rounded up; the result is within 0..100.
C13_ScoreIsRoundedClampedMeanLoss ==
    lastCall.op = "calculateScore"
      => LET ds == lastCall.args[1]
             r == lastCall.result[1]
             v == exactScore(ds)
         IN /\ r \in 0..100
            /\ Len(ds) = 0 => r = 100
            /\ Len(ds) > 0
                 => /\ 2 * r * v.den <= 2 * v.num + v.den
                    /\ 2 * v.num + v.den < 2 * (r + 1) * v.den

\* one decision of frequency 0.55: the exact value 86.5 is returned as 87
C13_Witness ==
    /\ lastCall.op = "calculateScore"
    /\ lastCall.args[1] = <<[isBlunder |-> FALSE, gtoFrequency |-> 55]>>
    /\ lastCall.result = <<87>>

\* the two-decision lists of C14: one blunder, one non-blunder of frequency
\* 0.9, in either order
blunderAndNearOptimal(ds) ==
    /\ Len(ds) = 2
    /\ \E i, j \in 1..2 :
          /\ i # j
          /\ ds[i].isBlunder
          /\ ~ds[j].isBlunder /\ ds[j].gtoFrequency = 90

\* C14 as stated: for one blunder and one non-blunder of frequency 0.9
\* calculateScore returns 68.
C14_BlunderAndNearOptimalScore68 ==
    (lastCall.op = "calculateScore" /\ blunderAndNearOptimal(lastCall.args[1]))
      => lastCall.result[1] = 68

\* C14 amended: for one blunder and one non-blunder of frequency 0.9
\* calculateScore returns 69, the exact value 68.5 rounded half up.
C14_BlunderAndNearOptimalScore69 ==
    (lastCall.op = "calculateScore" /\ blunderAndNearOptimal(lastCall.args[1]))
      => /\ lastCall.result[1] = 69
         /\ 2 * exactScore(lastCall.args[1]).num
              = 137 * exactScore(lastCall.args[1]).den

\* the blunder first, the near-optimal decision second, scored 69
C14_Witness ==
    /\ lastCall.op = "calculateScore"
    /\ Len(lastCall.args[1]) = 2
    /\ lastCall.args[1][1].isBlunder
    /\ lastCall.args[1][2] = [isBlunder |-> FALSE, gtoFrequency |-> 90]
    /\ lastCall.result = <<69>>

\* the frequencies of a solution's actions lie within [0, 1] and sum to 1.0
frequenciesSumToOne(solution) ==
    LET actions == solution.actions
        sum[i \in 0..Len(actions)] ==
            IF i = 0 THEN 0 ELSE sum[i - 1] + actions[i].frequency
    IN /\ \A i \in 1..Len(actions) : actions[i].frequency \in 0..100
       /\ sum[Len(actions)] = 100

\* C15: every stored solution, and so every solution a lookup returns, has
\* action frequencies within [0, 1] that sum to 1.0.
C15_StoredFrequenciesSumToOne ==
    /\ \A k \in 1..Len(gtoSolutions) : frequenciesSumToOne(gtoSolutions[k])
    /\ (lastCall.op = "findGTOSolution" /\ lastCall.result # Undefined)
         => frequenciesSumToOne(lastCall.result[1])

\* the wet-draw solution looked up: a fold of frequency 0 beside 0.85 and 0.15
C15_Witness ==
    /\ lastCall.op = "findGTOSolution"
    /\ lastCall.result # Undefined
    /\ lastCall.result[1].id = "flop-btn-vs-co-wetdraw"
    /\ [i \in 1..3 |-> lastCall.result[1].actions[i].frequency] = <<0, 85, 15>>

\* the 24 permutations of the four suits, and a board with its suits renamed
suitPermutations ==
    LET suits == {"h", "d", "c", "s"}
    IN {p \in [suits -> suits] : \A a, b \in suits : a # b => p[a] # p[b]}

permuteSuits(board, p) == [i \in 1..Len(board) |-> <<board[i][1], p[board[i][2]]>>]

\* C16: two boards that differ only by a permutation of the suits, queried
\* with the same street and hand class, get the same stored solution, or
\* null both.
C16_SuitPermutationSameSolution ==
    lastCall.op = "findGTOSolution"
      => \A p \in suitPermutations :
            findGTOSolution(lastCall.args[1], permuteSuits(lastCall.args[2], p),
                            lastCall.args[3]) = lastCall.result

\* the monotone club board Qc Jc 7c answered with the solution stored for
\* the monotone heart board
C16_Witness ==
    /\ lastCall.op = "findGTOSolution"
    /\ lastCall.args = <<"flop", <<<<"Q", "c">>, <<"J", "c">>, <<"7", "c">>>>, <<"draw">>>>
    /\ lastCall.result # Undefined
    /\ lastCall.result[1].board = <<<<"Q", "h">>, <<"J", "h">>, <<"7", "h">>>>

\* C17: a solution is returned only when its street is the queried street
\* and its board is the queried board up to a suit permutation; for a board
\* no stored solution of the street represents, null is returned.
C17_ReturnedSolutionIsForQueriedBoard ==
    lastCall.op = "findGTOSolution"
      => LET street == lastCall.args[1]
             board == lastCall.args[2]
             represents(s) ==
                 /\ s.street = street
                 /\ \E p \in suitPermutations : permuteSuits(board, p) = s.board
         IN /\ lastCall.result # Undefined => represents(lastCall.result[1])
            /\ (\A k \in 1..Len(gtoSolutions) : ~represents(gtoSolutions[k]))
                 => lastCall.result = Undefined

\* C18: when more than one stored solution satisfies the lookup key (street,
\* board, hand class when given), the lookup reports an error that is
\* neither null (not found) nor one of the matching solutions.
C18_AmbiguousMatchReported ==
    lastCall.op = "findGTOSolution"
      => LET street == lastCall.args[1]
             board == lastCall.args[2]
             handClass == lastCall.args[3]
             matching == {k \in 1..Len(gtoSolutions) :
                            /\ gtoSolutions[k].street = street
                            /\ gtoSolutions[k].board = board
                            /\ (handClass = Undefined
                                \/ gtoSolutions[k].handClass = handClass)}
         IN Cardinality(matching) > 1
              => /\ lastCall.result # Undefined
                 /\ \A k \in matching : lastCall.result # <<gtoSolutions[k]>>

\* C19: when the solution stored for the spot offers no action of the chosen
\* type, the recorded decision has frequency 0 and ev 0; in particular a fold
\* on the A-K-7 flop, whose stored solution offers only check and bet, is
\* recorded with frequency 0 and as a blunder.
C19_UnofferedActionFallsBackToZero ==
    [][accepted
         => LET boardStrings == [i \in 1..Len(gameState.board)
                                   |-> cardToString(gameState.board[i])]
                sameSpot(s) == s.street = gameState.street /\ s.board = boardStrings
                stored == find(gtoSolutions, {i \in 1..Len(gtoSolutions) : sameSpot(gtoSolutions[i])})
                offered == {stored[1].actions[i].action : i \in 1..Len(stored[1].actions)}
                d == decisions'[Len(decisions')]
            IN /\ (stored # Undefined /\ calledAction \notin offered)
                    => d.gtoFrequency = 0 /\ d.gtoEV = 0
               /\ (calledAction = "fold" /\ gameState.street = "flop"
                     /\ boardStrings = scenario1.board)
                    => d.gtoFrequency = 0 /\ d.isBlunder]_vars

\* C20: findAction returns an action of the solution of the requested type
\* whose size, when a size is requested and the action has one, is within
\* 0.10 of the requested size; it returns undefined exactly when the solution
\* has no such action.
C20_FindActionWithinTolerance ==
    lastCall.op = "findAction"
      => LET solution == lastCall.args[1]
             actionType == lastCall.args[2]
             size == lastCall.args[3]
             distance(a) == IF a.size[1] >= size[1] THEN a.size[1] - size[1]
                            ELSE size[1] - a.size[1]
             fits(a) ==
                 /\ a.action = actionType
                 /\ (size # Undefined /\ a.size # Undefined) => distance(a) <= 10
             fitting == {i \in 1..Len(solution.actions) : fits(solution.actions[i])}
         IN /\ lastCall.result # Undefined
                 => \E i \in fitting : lastCall.result[1] = solution.actions[i]
            /\ lastCall.result = Undefined <=> fitting = {}

\* C21: colour, star rating and feedback of a score come from one threshold
\* partition of 0..100 (two scores share one of the three exactly when they
\* share the others), and a higher score is never shown a lower colour,
\* rating or message.
C21_OneTierPartitionForColorStarsFeedback ==
    lastCall.op = "renderScore"
      => LET s == lastCall.args[1]
             shown == lastCall.result[1]
             colorRank(c) == CASE c = "#4caf50" -> 2 [] c = "#ff9800" -> 1 [] OTHER -> 0
             starRank(e) == CASE e = "three stars" -> 3 [] e = "two stars" -> 2
                              [] e = "one star" -> 1 [] OTHER -> 0
         IN \A t \in Scores :
               /\ (getScoreEmoji(t) = shown.emoji) <=> (getScoreColor(t) = shown.color)
               /\ (getScoreEmoji(t) = shown.emoji) <=> (getScoreFeedback(t) = shown.feedback)
               /\ t >= s => /\ colorRank(getScoreColor(t)) >= colorRank(shown.color)
                            /\ starRank(getScoreEmoji(t)) >= starRank(shown.emoji)

\* the hook state after makeAction(action, amount) has taken effect on h
afterMakeAction(h, action, amount) ==
    IF h[3]
    THEN h
    ELSE <<processAction(h[1], action, amount),
           Append(h[2], newDecision(h[1], action, amount)),
           handOver(h[1], action, amount)>>

\* C22: invocations of makeAction take effect one after another, also when
\* two are issued from one render: the hook state after them is the one the
\* first followed by the second gives, so no decision or state update is lost;
\* and the hand is complete only if the last action of the history is a fold
\* or the street is river.
C22_InvocationsTakeEffectInSequence ==
    [][/\ lastCall'.op = "makeAction"
            => hookState' = afterMakeAction(hookState, lastCall'.args[1], lastCall'.args[2])
       /\ lastCall'.op = "makeActionTwice"
            => hookState' = afterMakeAction(
                                afterMakeAction(hookState, lastCall'.args[1], lastCall'.args[2]),
                                lastCall'.args[3], lastCall'.args[4])
       /\ isHandComplete'
            => \/ gameState'.street = "river"
               \/ /\ gameState'.actionHistory # <<>>
                  /\ gameState'.actionHistory[Len(gameState'.actionHistory)].type = "fold"]_vars

\* the decision list and the action history agree entry by entry
decisionsMatchHistory ==
    /\ Len(decisions) = Len(gameState.actionHistory)
    /\ \A i \in 1..Len(decisions) :
          /\ decisions[i].street = gameState.actionHistory[i].street
          /\ decisions[i].action = gameState.actionHistory[i].type

\* C23: after every call the decision list and the action history have the
\* same length and agree on street and action type at every index, and the
\* street of the entries an accepted makeAction adds is the street the state
\* was on before the action.
C23_DecisionsMirrorActionHistory ==
    [][/\ decisionsMatchHistory'
       /\ accepted
            => /\ decisions'[Len(decisions')].street = gameState.street
               /\ gameState'.actionHistory[Len(decisions')].street = gameState.street]_vars

\* a bet on the flop and a check on the turn, both recorded
C23_Witness ==
    /\ Len(decisions) = 2
    /\ Len(gameState.actionHistory) = 2
    /\ <<decisions[1].street, decisions[1].action>> = <<"flop", "bet">>
    /\ <<decisions[2].street, decisions[2].action>> = <<"turn", "check">>
    /\ gameState.street = "river"

C26_CompletedHandScoreBetween40And88 ==
    isHandComplete
      => LET score == calculateScore(decisions)
         IN /\ score \in 40..88
            /\ getScoreEmoji(score) # "three stars"
            /\ getScoreFeedback(score) # "Excellent!"

\* the upper end of the range: a hand of two checks scores 88
C26_Witness ==
    /\ isHandComplete
    /\ Len(decisions) = 2
    /\ \A i \in 1..2 : decisions[i].action = "check"
    /\ calculateScore(decisions) = 88


C28_StartNewHandRestoresInitialState ==
    [][lastCall'.op = "startNewHand"
         => /\ gameState'.street = "flop"
            /\ 10 * gameState'.pot = 75 * BB
            /\ [i \in 1..Len(gameState'.board) |-> cardToString(gameState'.board[i])]
                 = <<<<"A", "h">>, <<"K", "d">>, <<"7", "s">>>>
            /\ gameState'.actionHistory = <<>>
            /\ decisions' = <<>>
            /\ ~isHandComplete'
            /\ gameState' = createInitialGameState]_vars

\* a new hand has been started
C28_Witness ==
    /\ lastCall.op = "startNewHand"
    /\ gameState.street = "flop"
    /\ decisions = <<>>
    /\ ~isHandComplete

\* C29: processAction leaves the state it is given as it was and returns the
\* successor as another value; the evaluations getBestAction, isBlunder,
\* findAction, findGTOSolution and the analysis inside makeAction change
\* nothing of the state given to them: a helper call leaves the hook state
\* alone and makeAction records its decision for the state as it was.
C29_ProcessActionLeavesInputUnchanged ==
    [][/\ lastCall'.op = "processAction"
            => /\ lastCall'.result[1].state = lastCall'.args[1]
               /\ lastCall'.result[1].newState # lastCall'.args[1]
               /\ lastCall'.result[1].newState
                    = processAction(lastCall'.args[1], lastCall'.args[2], lastCall'.args[3])
       /\ lastCall'.op \in {"getBestAction", "isBlunder", "findAction", "findGTOSolution"}
            => UNCHANGED hookState
       /\ accepted
            => /\ gameState' = processAction(gameState, calledAction, calledAmount)
               /\ decisions'[Len(decisions')].street = gameState.street]_vars

\* processAction has been applied to a state on the turn with one action in
\* its history and has returned a river state with two
C29_Witness ==
    /\ lastCall.op = "processAction"
    /\ lastCall.args[1].street = "turn"
    /\ Len(lastCall.args[1].actionHistory) = 1
    /\ lastCall.result[1].newState.street = "river"
    /\ Len(lastCall.result[1].newState.actionHistory) = 2
    /\ Len(lastCall.result[1].state.actionHistory) = 1

\* C30: every stored solution is retrievable: some query made of its own
\* street and board, with its own hand class or with none, gets that solution
\* from findGTOSolution.
C30_EveryStoredSolutionRetrievable ==
    lastCall.op = "findGTOSolution"
      => \A k \in 1..Len(gtoSolutions) :
            LET s == gtoSolutions[k]
            IN \E handClass \in {Undefined, s.handClass} :
                  findGTOSolution(s.street, s.board, handClass) = <<s>>

====
